---- MODULE Spec2Model ----
(***************************************************************************)
(* GPDB: an LSM key-value engine (MemTable + write-ahead log + SSTables).  *)
(* The model keeps the on-disk files as byte sequences, so that framing,   *)
(* checksums, torn tails and replay are computed the way the code does.    *)
(* K and V are instantiated at one-byte integers (u8).                     *)
(***************************************************************************)
EXTENDS Integers, Sequences, FiniteSets, TLC

\* ------------------------------------------------------------------------
\* Bounds of the model
\* ------------------------------------------------------------------------
MaxOps == 2          \* put/delete calls in one behaviour
MaxCrashes == 1      \* crashes in one behaviour
MaxFaults == 1       \* injected write-path I/O failures in one behaviour
MaxCorrupt == 1      \* external corruptions of a file in one behaviour

Keys == {1, 2}
Vals == {1, 2}
MemLimits == {0, 2}  \* values of max_memtable_size handed to DB::open
TableKeys == {1, 2, 3}   \* keys of the MemTable and the SSTable used on their own
Ticks == {-1, 0, 1}  \* nanoseconds the wall clock may move between two flushes
                     \* (SystemTime is not monotonic: it can be set back)

NoFile == <<-1>>            \* wal.log does not exist (bytes are 0..255)
KEY_SIZE == 1        \* size_of_val(&key) for K = u8
VALUE_SIZE == 1      \* size_of_val(&value) for V = u8
FOOTER_SIZE == 24
MAGIC_BYTES == <<254, 202, 239, 190, 222, 192, 173, 222>>  \* 0xDEADC0DEBEEFCAFE, little-endian
CRC_LEN == 4
LEN_LEN == 8
Huge == 1000000000   \* stands for every u64 that exceeds any file length

\* ------------------------------------------------------------------------
\* Bytes and little-endian integers
\* ------------------------------------------------------------------------
Take(s, n) == SubSeq(s, 1, n)
Drop(s, n) == SubSeq(s, n + 1, Len(s))
Slice(s, pos, n) == SubSeq(s, pos + 1, pos + n)     \* n bytes at 0-based offset pos

Pow256 == <<1, 256, 65536, 16777216>>

\* u32::to_le_bytes
U32ToLe(n) == [i \in 1..4 |-> (n \div Pow256[i]) % 256]

\* u64::to_le_bytes (every modelled quantity is below 2^31)
U64ToLe(n) == [i \in 1..8 |-> IF i <= 4 THEN (n \div Pow256[i]) % 256 ELSE 0]

\* u32::from_le_bytes, kept in 32 bits: a value of 2^31 or more is held as value - 2^32
U32FromLe(b) == b[1] + 256 * b[2] + 65536 * b[3]
                + 16777216 * (IF b[4] >= 128 THEN b[4] - 256 ELSE b[4])

\* u64::from_le_bytes, saturated at Huge
U64FromLe(b) ==
    IF (\E i \in 5..8 : b[i] # 0) \/ b[4] # 0 \/ b[3] >= 32
    THEN Huge
    ELSE b[1] + 256 * b[2] + 65536 * b[3]

\* crc32fast::Hasher over a payload: a 16-bit polynomial checksum stands for CRC-32
RECURSIVE CrcFrom(_, _, _)
CrcFrom(s, i, h) ==
    IF i > Len(s) THEN h
    ELSE CrcFrom(s, i + 1, (h * 31 + s[i] + 7) % 65521)

Crc(s) == CrcFrom(s, 1, 1)

\* [checksum (4)][length (8)][payload]
Frame(payload) == U32ToLe(Crc(payload)) \o U64ToLe(Len(payload)) \o payload

\* ------------------------------------------------------------------------
\* types.rs: Entry and LogEntry, and their bincode encodings
\* ------------------------------------------------------------------------
LiveEntry(v) == [value |-> v, is_tombstone |-> FALSE]
Tombstone == [value |-> 0, is_tombstone |-> TRUE]      \* value 0 is None

LogPut(k, v) == [kind |-> "Put", key |-> k, value |-> v]
LogDelete(k) == [kind |-> "Delete", key |-> k, value |-> 0]

\* bincode::serialize(&LogEntry): u32 variant index, then the fields
SerializeLogEntry(e) ==
    IF e.kind = "Put" THEN U32ToLe(0) \o <<e.key, e.value>>
    ELSE U32ToLe(1) \o <<e.key>>

\* bincode::deserialize::<LogEntry>
DeserializeLogEntry(p) ==
    IF Len(p) < 4 THEN [ok |-> FALSE]
    ELSE LET tag == U32FromLe(Take(p, 4)) IN
         IF tag = 0 /\ Len(p) >= 6 THEN [ok |-> TRUE, entry |-> LogPut(p[5], p[6])]
         ELSE IF tag = 1 /\ Len(p) >= 5 THEN [ok |-> TRUE, entry |-> LogDelete(p[5])]
         ELSE [ok |-> FALSE]

\* an encoding that always writes the bool as false
SerializeEntry_NoFlag(e) ==
    IF e.is_tombstone THEN <<0, 0>> ELSE <<1, e.value, 0>>

\* bincode::serialize(&Entry): Option tag (+ value), then the bool
SerializeEntry(e) ==
    IF e.is_tombstone THEN <<0, 1>> ELSE <<1, e.value, 0>>

\* bincode::deserialize::<Entry>
DeserializeEntry(p) ==
    IF Len(p) >= 2 /\ p[1] = 0 /\ p[2] \in {0, 1}
    THEN [ok |-> TRUE, entry |-> [value |-> 0, is_tombstone |-> (p[2] = 1)]]
    ELSE IF Len(p) >= 3 /\ p[1] = 1 /\ p[3] \in {0, 1}
    THEN [ok |-> TRUE, entry |-> [value |-> p[2], is_tombstone |-> (p[3] = 1)]]
    ELSE [ok |-> FALSE]

\* ------------------------------------------------------------------------
\* memtable.rs
\* ------------------------------------------------------------------------
EmptyMap == [k \in {} |-> Tombstone]
Insert(m, k, e) == [x \in (DOMAIN m) \cup {k} |-> IF x = k THEN e ELSE m[x]]

MemTableNew == [b_tree_map |-> EmptyMap, hash_map |-> EmptyMap]

MemTablePut(mt, k, v) ==
    [b_tree_map |-> Insert(mt.b_tree_map, k, LiveEntry(v)),
     hash_map |-> Insert(mt.hash_map, k, LiveEntry(v))]

\* a delete that inserts the tombstone in the hashed index only
MemTableDelete_HashOnly(mt, k) ==
    [b_tree_map |-> mt.b_tree_map,
     hash_map |-> Insert(mt.hash_map, k, Tombstone)]

MemTableDelete(mt, k) ==
    [b_tree_map |-> Insert(mt.b_tree_map, k, Tombstone),
     hash_map |-> Insert(mt.hash_map, k, Tombstone)]

\* Option<Arc<V>>: 0 is None
MemTableGet(mt, k) ==
    IF k \in DOMAIN mt.hash_map /\ ~mt.hash_map[k].is_tombstone
    THEN mt.hash_map[k].value
    ELSE 0

\* a len() that counts tombstones too
MemTableLen_All(mt) == Cardinality(DOMAIN mt.hash_map)

MemTableLen(mt) == Cardinality({k \in DOMAIN mt.hash_map : ~mt.hash_map[k].is_tombstone})

MemTableClear(mt) == [b_tree_map |-> EmptyMap, hash_map |-> EmptyMap]

\* ascending key order of a BTreeMap
RECURSIVE SortedKeys(_)
SortedKeys(S) ==
    IF S = {} THEN <<>>
    ELSE LET m == CHOOSE x \in S : \A y \in S : x <= y
         IN <<m>> \o SortedKeys(S \ {m})

\* an iteration that leaves out the tombstones
MemTableIter_LiveOnly(mt) ==
    LET live == SortedKeys({k \in DOMAIN mt.b_tree_map : ~mt.b_tree_map[k].is_tombstone})
    IN [i \in 1..Len(live) |-> [key |-> live[i], entry |-> mt.b_tree_map[live[i]]]]

MemTableIter(mt) == [i \in 1..Len(SortedKeys(DOMAIN mt.b_tree_map)) |->
                        LET k == SortedKeys(DOMAIN mt.b_tree_map)[i]
                        IN [key |-> k, entry |-> mt.b_tree_map[k]]]

\* ------------------------------------------------------------------------
\* wal.rs: WalIterator::next and the replay loop of DB::open
\* ------------------------------------------------------------------------
\* next() without the checksum comparison
WalIteratorNext_NoCrc(bytes, pos) ==
    LET rem == Len(bytes) - pos IN
    IF rem < CRC_LEN THEN [kind |-> "eof"]
    ELSE IF rem < CRC_LEN + LEN_LEN THEN [kind |-> "err", err |-> "UnexpectedEof"]
    ELSE LET entry_len == U64FromLe(Slice(bytes, pos + CRC_LEN, LEN_LEN))
         IN IF rem - (CRC_LEN + LEN_LEN) < entry_len
            THEN [kind |-> "err", err |-> "UnexpectedEof"]
            ELSE LET d == DeserializeLogEntry(Slice(bytes, pos + CRC_LEN + LEN_LEN, entry_len))
                 IN IF ~d.ok THEN [kind |-> "err", err |-> "InvalidData"]
                    ELSE [kind |-> "ok", entry |-> d.entry,
                          pos |-> pos + CRC_LEN + LEN_LEN + entry_len]

\* One call of next() with the reader at 0-based offset pos.
WalIteratorNext(bytes, pos) ==
    LET rem == Len(bytes) - pos IN
    IF rem < CRC_LEN THEN [kind |-> "eof"]
    ELSE IF rem < CRC_LEN + LEN_LEN THEN [kind |-> "err", err |-> "UnexpectedEof"]
    ELSE LET expected_checksum == U32FromLe(Slice(bytes, pos, CRC_LEN))
             entry_len == U64FromLe(Slice(bytes, pos + CRC_LEN, LEN_LEN))
         IN IF rem - (CRC_LEN + LEN_LEN) < entry_len
            THEN [kind |-> "err", err |-> "UnexpectedEof"]
            ELSE LET serialized_entry == Slice(bytes, pos + CRC_LEN + LEN_LEN, entry_len)
                     d == DeserializeLogEntry(serialized_entry)
                 IN IF Crc(serialized_entry) # expected_checksum
                    THEN [kind |-> "err", err |-> "InvalidData"]
                    ELSE IF ~d.ok THEN [kind |-> "err", err |-> "InvalidData"]
                    ELSE [kind |-> "ok", entry |-> d.entry,
                          pos |-> pos + CRC_LEN + LEN_LEN + entry_len]

ApplyLogEntry(mt, e) ==
    IF e.kind = "Put" THEN MemTablePut(mt, e.key, e.value) ELSE MemTableDelete(mt, e.key)

\* for entry_result in existing_wal.iter()? { let entry = entry_result?; ... }
RECURSIVE ReplayFrom(_, _, _)
ReplayFrom(bytes, pos, mt) ==
    LET r == WalIteratorNext(bytes, pos) IN
    IF r.kind = "eof" THEN [ok |-> TRUE, err |-> "none", memtable |-> mt]
    ELSE IF r.kind = "err" THEN [ok |-> FALSE, err |-> r.err, memtable |-> mt]
    ELSE ReplayFrom(bytes, r.pos, ApplyLogEntry(mt, r.entry))

Replay(bytes) == ReplayFrom(bytes, 0, MemTableNew)

\* ------------------------------------------------------------------------
\* sstable.rs
\* ------------------------------------------------------------------------
\* the data section and the index built by the loop of write_from_memtable
RECURSIVE WriteRecords(_, _, _, _)
WriteRecords(items, i, data, index) ==
    IF i > Len(items) THEN [data |-> data, index |-> index]
    ELSE WriteRecords(items, i + 1,
                      data \o Frame(SerializeEntry(items[i].entry)),
                      Insert(index, items[i].key, Len(data)))

\* bincode::serialize(&BTreeMap<K, u64>): u64 count, then (key, offset) ascending
RECURSIVE SerializeIndexFrom(_, _, _)
SerializeIndexFrom(index, ks, i) ==
    IF i > Len(ks) THEN <<>>
    ELSE <<ks[i]>> \o U64ToLe(index[ks[i]]) \o SerializeIndexFrom(index, ks, i + 1)

SerializeIndex(index) ==
    U64ToLe(Cardinality(DOMAIN index)) \o SerializeIndexFrom(index, SortedKeys(DOMAIN index), 1)

\* bincode::deserialize::<BTreeMap<K, u64>>
RECURSIVE DeserializeIndexFrom(_, _, _, _)
DeserializeIndexFrom(p, pos, n, index) ==
    IF n = 0 THEN [ok |-> TRUE, index |-> index]
    ELSE IF Len(p) - pos < 1 + LEN_LEN THEN [ok |-> FALSE]
    ELSE DeserializeIndexFrom(p, pos + 1 + LEN_LEN, n - 1,
                              Insert(index, p[pos + 1], U64FromLe(Slice(p, pos + 1, LEN_LEN))))

EmptyIndex == [k \in {} |-> 0]

DeserializeIndex(p) ==
    IF Len(p) < LEN_LEN THEN [ok |-> FALSE]
    ELSE LET n == U64FromLe(Take(p, LEN_LEN)) IN
         IF n = Huge THEN [ok |-> FALSE]
         ELSE DeserializeIndexFrom(p, LEN_LEN, n, EmptyIndex)

\* the bytes write_from_memtable puts in the new file
SSTableFileBytes(mt) ==
    LET w == WriteRecords(MemTableIter(mt), 1, <<>>, EmptyIndex)
        serialized_index == SerializeIndex(w.index)
    IN w.data \o serialized_index \o U64ToLe(Len(w.data))
       \o U64ToLe(Len(serialized_index)) \o MAGIC_BYTES

\* open() without the comparison of the magic number
SSTableOpen_NoMagic(path, bytes) ==
    IF Len(bytes) < FOOTER_SIZE THEN [ok |-> FALSE, err |-> "InvalidData"]
    ELSE LET footer == Drop(bytes, Len(bytes) - FOOTER_SIZE)
             index_offset == U64FromLe(Slice(footer, 0, 8))
             index_size == U64FromLe(Slice(footer, 8, 8))
         IN IF index_offset + index_size > Len(bytes)
            THEN [ok |-> FALSE, err |-> "UnexpectedEof"]
            ELSE LET d == DeserializeIndex(Slice(bytes, index_offset, index_size))
                 IN IF ~d.ok THEN [ok |-> FALSE, err |-> "InvalidData"]
                    ELSE [ok |-> TRUE, err |-> "none",
                          sstable |-> [path |-> path, index |-> d.index]]

\* SSTable::open on a file with the given content
SSTableOpen(path, bytes) ==
    IF Len(bytes) < FOOTER_SIZE THEN [ok |-> FALSE, err |-> "InvalidData"]
    ELSE LET footer == Drop(bytes, Len(bytes) - FOOTER_SIZE)
             index_offset == U64FromLe(Slice(footer, 0, 8))
             index_size == U64FromLe(Slice(footer, 8, 8))
             magic_number == Slice(footer, 16, 8)
         IN IF magic_number # MAGIC_BYTES THEN [ok |-> FALSE, err |-> "InvalidData"]
            ELSE IF index_offset + index_size > Len(bytes)
            THEN [ok |-> FALSE, err |-> "UnexpectedEof"]
            ELSE LET d == DeserializeIndex(Slice(bytes, index_offset, index_size))
                 IN IF ~d.ok THEN [ok |-> FALSE, err |-> "InvalidData"]
                    ELSE [ok |-> TRUE, err |-> "none",
                          sstable |-> [path |-> path, index |-> d.index]]

SSTableLen(t) == Cardinality(DOMAIN t.index)

\* SSTable::get: reads one frame of the file at the indexed offset.
\* files is the directory's map from path to content.
SSTableGet(files, t, key) ==
    IF key \notin DOMAIN t.index THEN [ok |-> TRUE, found |-> FALSE]
    ELSE IF t.path \notin DOMAIN files THEN [ok |-> FALSE, err |-> "NotFound"]
    ELSE LET bytes == files[t.path]
             offset == t.index[key]
             rem == Len(bytes) - offset
         IN IF rem < CRC_LEN + LEN_LEN THEN [ok |-> FALSE, err |-> "UnexpectedEof"]
            ELSE LET expected_checksum == U32FromLe(Slice(bytes, offset, CRC_LEN))
                     entry_len == U64FromLe(Slice(bytes, offset + CRC_LEN, LEN_LEN))
                 IN IF rem - (CRC_LEN + LEN_LEN) < entry_len
                    THEN [ok |-> FALSE, err |-> "UnexpectedEof"]
                    ELSE LET serialized_entry ==
                                 Slice(bytes, offset + CRC_LEN + LEN_LEN, entry_len)
                             d == DeserializeEntry(serialized_entry)
                         IN IF Crc(serialized_entry) # expected_checksum
                            THEN [ok |-> FALSE, err |-> "InvalidData"]
                            ELSE IF ~d.ok THEN [ok |-> FALSE, err |-> "InvalidData"]
                            ELSE [ok |-> TRUE, found |-> TRUE, entry |-> d.entry]

\* ------------------------------------------------------------------------
\* database.rs: state
\* ------------------------------------------------------------------------
VARIABLES
    wal_file,           \* content of <dir>/wal.log, or NoFile
    wal_synced,         \* leading bytes of wal.log that sync_all has made stable
    sst_files,          \* the .sst files of the directory: path -> content
    now,                \* the wall clock (nanoseconds)
    config,             \* the max_memtable_size the application passes to DB::open
    dir,                \* the other entries of the directory: file name -> content
    t_mem,              \* a MemTable used on its own
    t_last,             \* per key: its last operation on t_mem since the last clear
    t_file,             \* the file written from t_mem by write_from_memtable, or NoFile
    t_src,              \* the MemTable that t_file was written from
    t_sst,              \* what write_from_memtable / SSTable::open returned for t_file
    wal_log,            \* the LogEntries whose frame has been written to wal.log since
                        \* it was created or cleared
    reopened,           \* the session and the MemTable of a DB that crashed right after
                        \* its open, before any call
    status,             \* "closed" | "open" | "open_failed"
    writer,             \* DB.wal.writer: bytes buffered in the BufWriter
    memtable,           \* DB.memtable
    levels,             \* DB.levels
    max_memtable_size,  \* DB.max_memtable_size
    memtable_size,      \* DB.memtable_size
    pc,                 \* position inside the running put/delete call
    op,                 \* the running call and its locals
    result,             \* what the last finished call returned
    open_err,           \* error kind of the last DB::open, "none" on success
    session,            \* number of DB::open calls so far
    acked,              \* per key: value (0: deleted) set by the last mutation that returned
                        \* Ok, the session it returned in, and the failures seen before it
    precrash,           \* per key: DB::get just before a crash inside a flush
    mem_before,         \* MemTable when the running call began
    size_before,        \* memtable_size when the running call began
    fail_site,          \* where the last call failed
    nops, ncrashes, nfaults, ncorrupt

standalone == <<t_mem, t_last, t_file, t_src, t_sst>>
outside == <<config, dir, standalone, reopened>>
given == <<outside, wal_log>>
disk == <<wal_file, wal_synced, sst_files, now, given>>
db == <<writer, memtable, levels, max_memtable_size, memtable_size>>
ctl == <<status, pc, op, result, open_err, session>>
before == <<mem_before, size_before>>
hist == <<acked, precrash, before, fail_site>>
counters == <<nops, ncrashes, nfaults, ncorrupt>>
vars == <<disk, db, ctl, hist, counters>>

NoEntries == [n \in {} |-> <<>>]
NeverUsed == [op |-> "none", value |-> 0, was_put |-> FALSE]
Unopened == [via |-> "none", res |-> [ok |-> FALSE, err |-> "unopened"]]
NotReopened == [armed |-> FALSE, session |-> 0, memtable |-> MemTableNew]
NoOp == [kind |-> "none", key |-> 0, value |-> 0, path |-> <<>>]
Unknown == [val |-> -1, sess |-> 0, faults |-> 0]
NoSnapshot == [k \in Keys |-> -2]

\* "L<level>-<20-digit nanoseconds>.sst"
SSTablePath(level, ts) == [level |-> level, ts |-> ts]

\* a.path().cmp(&b.path()) = Less
PathLess(a, b) == a.level < b.level \/ (a.level = b.level /\ a.ts < b.ts)

\* sort_by(|a, b| a.path().cmp(&b.path())), a stable sort
RECURSIVE SortTables(_)
SortTables(s) ==
    IF Len(s) <= 1 THEN s
    ELSE LET i == CHOOSE i \in 1..Len(s) :
                      /\ \A j \in 1..Len(s) : ~PathLess(s[j].path, s[i].path)
                      /\ \A j \in 1..(i - 1) : PathLess(s[i].path, s[j].path)
         IN <<s[i]>> \o SortTables(SubSeq(s, 1, i - 1) \o SubSeq(s, i + 1, Len(s)))

Reverse(s) == [i \in 1..Len(s) |-> s[Len(s) + 1 - i]]

\* ------------------------------------------------------------------------
\* DB::get
\* ------------------------------------------------------------------------
\* the iteration without .rev()
LevelScanOrder_Forward(level_sstables) == level_sstables

\* for sstable in level_sstables.iter().rev()
LevelScanOrder(level_sstables) == Reverse(level_sstables)

RECURSIVE ScanTables(_, _, _, _)
ScanTables(files, tables, i, key) ==
    IF i > Len(tables) THEN [ok |-> TRUE, found |-> FALSE, value |-> 0]
    ELSE LET r == SSTableGet(files, tables[i], key) IN
         IF ~r.ok THEN [ok |-> FALSE, found |-> FALSE, value |-> 0]
         ELSE IF r.found
         THEN [ok |-> TRUE, found |-> TRUE,
               value |-> IF r.entry.is_tombstone THEN 0 ELSE r.entry.value]
         ELSE ScanTables(files, tables, i + 1, key)

RECURSIVE ScanLevels(_, _, _, _)
ScanLevels(files, lv, l, key) ==
    IF l > Len(lv) THEN [ok |-> TRUE, value |-> 0]
    ELSE LET r == ScanTables(files, LevelScanOrder(lv[l]), 1, key) IN
         IF ~r.ok \/ r.found THEN [ok |-> r.ok, value |-> r.value]
         ELSE ScanLevels(files, lv, l + 1, key)

\* a get that stops at the MemTable
GetIn_MemTableOnly(mt, lv, files, key) == [ok |-> TRUE, value |-> MemTableGet(mt, key)]

\* DB::get of a DB with the given MemTable and levels; value 0 is Ok(None)
GetIn(mt, lv, files, key) ==
    IF MemTableGet(mt, key) # 0 THEN [ok |-> TRUE, value |-> MemTableGet(mt, key)]
    ELSE ScanLevels(files, lv, 1, key)

DBGet(key) == GetIn(memtable, levels, sst_files, key)

\* ------------------------------------------------------------------------
\* DB::open and DB::load_levels
\* ------------------------------------------------------------------------
\* file names are sequences of characters
DigitChars == <<"0", "1", "2", "3", "4", "5", "6", "7", "8", "9">>
IsDigit(c) == \E i \in 1..10 : DigitChars[i] = c
DigitValue(c) == (CHOOSE i \in 1..10 : DigitChars[i] = c) - 1

\* positions of character c in name
Positions(name, c) == {i \in 1..Len(name) : name[i] = c}
FirstOf(S) == CHOOSE i \in S : \A j \in S : i <= j
LastOf(S) == CHOOSE i \in S : \A j \in S : j <= i

\* Path::extension: the part after the last '.', none when the name has no '.' or
\* only a leading one
PathExtension(name) ==
    LET dots == Positions(name, ".") IN
    IF dots = {} \/ LastOf(dots) = 1 THEN [some |-> FALSE]
    ELSE [some |-> TRUE, ext |-> Drop(name, LastOf(dots))]

\* filename.split('-').collect()[0]
FirstPart(name) ==
    LET dashes == Positions(name, "-") IN
    IF dashes = {} THEN name ELSE Take(name, FirstOf(dashes) - 1)

\* str::parse::<usize>: an optional '+', then one or more decimal digits
RECURSIVE DecimalValue(_, _, _)
DecimalValue(s, i, acc) ==
    IF i > Len(s) THEN acc ELSE DecimalValue(s, i + 1, 10 * acc + DigitValue(s[i]))

ParseUsize(s) ==
    LET digits == IF Len(s) > 0 /\ s[1] = "+" THEN Drop(s, 1) ELSE s IN
    IF Len(digits) = 0 \/ \E i \in 1..Len(digits) : ~IsDigit(digits[i])
    THEN [ok |-> FALSE]
    ELSE [ok |-> TRUE, value |-> DecimalValue(digits, 1, 0)]

\* what the loop body of load_levels does with one directory entry (a regular file):
\* "skip", "panic" (&parts[0][1..] on an empty first part), or "open" at a level
LoadEntry(name) ==
    LET extension == PathExtension(name) IN
    IF extension.some /\ extension.ext # <<"s", "s", "t">> THEN [kind |-> "skip"]
    ELSE LET parts0 == FirstPart(name) IN
         IF Len(parts0) = 0 THEN [kind |-> "panic"]
         ELSE LET level_idx == ParseUsize(Drop(parts0, 1)) IN
              IF level_idx.ok THEN [kind |-> "open", level |-> level_idx.value]
              ELSE [kind |-> "skip"]

\* load_levels over the directory: files are the entries named "L<level>-<nanos>.sst"
\* (they pass the filter and open at <level>), entries the other ones. errs are the
\* outcomes that end the loop (which one depends on the order of read_dir); map is
\* the returned BTreeMap level -> tables, others the tables in it that were opened
\* from one of the other entries.
LoadLevels(files, entries) ==
    LET opened == {n \in DOMAIN entries : LoadEntry(n).kind = "open"}
        errs == {SSTableOpen(p, files[p]).err : p \in {q \in DOMAIN files : ~SSTableOpen(q, files[q]).ok}}
                \cup {SSTableOpen(n, entries[n]).err : n \in {m \in opened : ~SSTableOpen(m, entries[m]).ok}}
                \cup {"panic" : n \in {m \in DOMAIN entries : LoadEntry(m).kind = "panic"}}
    IN IF errs # {} THEN [ok |-> FALSE, errs |-> errs]
       ELSE [ok |-> TRUE, errs |-> {},
             map |-> [l \in {p.level : p \in DOMAIN files} |->
                        {SSTableOpen(p, files[p]).sstable : p \in {q \in DOMAIN files : q.level = l}}],
             others |-> {[name |-> n, level |-> LoadEntry(n).level] : n \in opened}]

RECURSIVE SortSet(_)
SortSet(S) ==
    IF S = {} THEN <<>>
    ELSE LET t == CHOOSE t \in S : \A u \in S : ~PathLess(u.path, t.path)
         IN <<t>> \o SortSet(S \ {t})

\* the local `levels` of DB::open: resized to max_loaded_level + 1, each level sorted
LoadedLevels(map) ==
    LET max_loaded_level ==
            IF DOMAIN map = {} THEN 0
            ELSE CHOOSE l \in DOMAIN map : \A m \in DOMAIN map : m <= l
    IN [i \in 1..(max_loaded_level + 1) |->
           IF (i - 1) \in DOMAIN map THEN SortSet(map[i - 1]) ELSE <<>>]

\* the `levels` field of the DB that open returns: vec![Vec::new()]
OpenedLevels(loaded) == << <<>> >>

OpenFails(err) ==
    /\ status' = "open_failed"
    /\ open_err' = err
    /\ UNCHANGED <<disk, db, pc, op, result>>

\* an open whose Wal::open truncates wal.log
OpenSucceeds_Truncating(limit, loaded, mt, wal) ==
    /\ status' = "open"
    /\ open_err' = "none"
    /\ wal_file' = <<>>
    /\ writer' = <<>>
    /\ memtable' = mt
    /\ levels' = OpenedLevels(loaded)
    /\ max_memtable_size' = limit
    /\ memtable_size' = 0
    /\ pc' = "idle"
    /\ op' = NoOp
    /\ result' = "none"
    /\ UNCHANGED <<wal_synced, sst_files, now, given>>

OpenSucceeds(limit, loaded, mt, wal) ==
    /\ status' = "open"
    /\ open_err' = "none"
    /\ wal_file' = wal
    /\ writer' = <<>>
    /\ memtable' = mt
    /\ levels' = OpenedLevels(loaded)
    /\ max_memtable_size' = limit
    /\ memtable_size' = 0
    /\ pc' = "idle"
    /\ op' = NoOp
    /\ result' = "none"
    /\ UNCHANGED <<wal_synced, sst_files, now, given>>

DBOpen(limit) ==
    /\ status = "closed"
    /\ session' = session + 1
    /\ LET ll == LoadLevels(sst_files, dir) IN
       IF ~ll.ok THEN \E err \in ll.errs : OpenFails(err)
       ELSE IF wal_file # NoFile
       THEN LET r == Replay(wal_file) IN
            IF ~r.ok THEN OpenFails(r.err)
            ELSE OpenSucceeds(limit, LoadedLevels(ll.map), r.memtable, wal_file)
       ELSE OpenSucceeds(limit, LoadedLevels(ll.map), MemTableNew, <<>>)
    /\ UNCHANGED <<hist, counters>>

\* ------------------------------------------------------------------------
\* DB::put and DB::delete, step by step
\* ------------------------------------------------------------------------
OpLogEntry(o) == IF o.kind = "Put" THEN LogPut(o.key, o.value) ELSE LogDelete(o.key)

\* the call returns res to the caller
Return(res, site) ==
    /\ pc' = "idle"
    /\ result' = res
    /\ fail_site' = site
    /\ op' = NoOp
    /\ acked' = IF res = "Ok"
                THEN [acked EXCEPT ![op.key] =
                                [val |-> op.value, sess |-> session, faults |-> nfaults]]
                ELSE acked

\* a put that changes the MemTable before it writes the WAL
PutCall_MemTableFirst(k, v) ==
    /\ status = "open" /\ pc = "idle" /\ nops < MaxOps
    /\ nops' = nops + 1
    /\ op' = [kind |-> "Put", key |-> k, value |-> v, path |-> <<>>]
    /\ memtable_size' = memtable_size + KEY_SIZE + VALUE_SIZE
    /\ memtable' = MemTablePut(memtable, k, v)
    /\ pc' = "wal_append"
    /\ mem_before' = memtable
    /\ size_before' = memtable_size
    /\ UNCHANGED <<disk, writer, levels, max_memtable_size, status, result,
                   open_err, session, acked, precrash, fail_site, ncrashes, nfaults, ncorrupt>>

PutCall(k, v) ==
    /\ status = "open" /\ pc = "idle" /\ nops < MaxOps
    /\ nops' = nops + 1
    /\ op' = [kind |-> "Put", key |-> k, value |-> v, path |-> <<>>]
    /\ memtable_size' = memtable_size + KEY_SIZE + VALUE_SIZE
    /\ pc' = "wal_append"
    /\ mem_before' = memtable
    /\ size_before' = memtable_size
    /\ UNCHANGED <<disk, writer, memtable, levels, max_memtable_size, status, result,
                   open_err, session, acked, precrash, fail_site, ncrashes, nfaults, ncorrupt>>

DeleteCall(k) ==
    /\ status = "open" /\ pc = "idle" /\ nops < MaxOps
    /\ nops' = nops + 1
    /\ op' = [kind |-> "Delete", key |-> k, value |-> 0, path |-> <<>>]
    /\ pc' = "wal_append"
    /\ mem_before' = memtable
    /\ size_before' = memtable_size
    /\ UNCHANGED <<disk, db, status, result, open_err, session, acked, precrash,
                   fail_site, ncrashes, nfaults, ncorrupt>>

\* Wal::append
WalAppend ==
    /\ status = "open" /\ pc = "wal_append"
    /\ writer' = writer \o Frame(SerializeLogEntry(OpLogEntry(op)))
    /\ pc' = "wal_flush"
    /\ UNCHANGED <<disk, memtable, levels, max_memtable_size, memtable_size, status, op,
                   result, open_err, session, hist, counters>>

\* a flush through a handle that writes from the start of the file
WalFlush_Overwriting ==
    /\ status = "open" /\ pc = "wal_flush"
    /\ wal_file' = writer \o Drop(wal_file, IF Len(writer) < Len(wal_file)
                                            THEN Len(writer) ELSE Len(wal_file))
    /\ wal_log' = Append(wal_log, OpLogEntry(op))
    /\ writer' = <<>>
    /\ pc' = "wal_sync"
    /\ UNCHANGED <<wal_synced, sst_files, now, outside, memtable, levels, max_memtable_size,
                   memtable_size, status, op, result, open_err, session, hist, counters>>

\* Wal::flush, first half: self.writer.flush()
WalFlush ==
    /\ status = "open" /\ pc = "wal_flush"
    /\ wal_file' = wal_file \o writer
    /\ wal_log' = Append(wal_log, OpLogEntry(op))
    /\ writer' = <<>>
    /\ pc' = "wal_sync"
    /\ UNCHANGED <<wal_synced, sst_files, now, outside, memtable, levels, max_memtable_size,
                   memtable_size, status, op, result, open_err, session, hist, counters>>

\* a flush that does not call sync_all()
WalSync_Skipped ==
    /\ status = "open" /\ pc = "wal_sync"
    /\ pc' = "mem_apply"
    /\ UNCHANGED <<disk, db, status, op, result, open_err, session, hist, counters>>

\* Wal::flush, second half: sync_all()
WalSync ==
    /\ status = "open" /\ pc = "wal_sync"
    /\ wal_synced' = Len(wal_file)
    /\ pc' = "mem_apply"
    /\ UNCHANGED <<wal_file, sst_files, now, given, db, status, op, result, open_err,
                   session, hist, counters>>

\* a put that flushes as soon as memtable_size reaches the threshold
MemApply_FlushAtThreshold ==
    /\ status = "open" /\ pc = "mem_apply"
    /\ memtable' = ApplyLogEntry(memtable, OpLogEntry(op))
    /\ IF op.kind = "Put" /\ memtable_size >= max_memtable_size
       THEN /\ pc' = "flush_create"
            /\ UNCHANGED <<op, result, fail_site, acked>>
       ELSE Return("Ok", "none")
    /\ UNCHANGED <<disk, writer, levels, max_memtable_size, memtable_size, status,
                   open_err, session, precrash, before, counters>>

\* self.memtable.put / self.memtable.delete, and put's size check
MemApply ==
    /\ status = "open" /\ pc = "mem_apply"
    /\ memtable' = ApplyLogEntry(memtable, OpLogEntry(op))
    /\ IF op.kind = "Put" /\ memtable_size > max_memtable_size
       THEN /\ pc' = "flush_create"
            /\ UNCHANGED <<op, result, fail_site, acked>>
       ELSE Return("Ok", "none")
    /\ UNCHANGED <<disk, writer, levels, max_memtable_size, memtable_size, status,
                   open_err, session, precrash, before, counters>>

\* ------------------------------------------------------------------------
\* DB::flush_memtable
\* ------------------------------------------------------------------------
\* a create that truncates an existing file instead of refusing it
FlushCreate_Truncating(dt) ==
    /\ status = "open" /\ pc = "flush_create"
    /\ now + dt >= 0
    /\ now' = now + dt
    /\ LET sstable_path == SSTablePath(0, now') IN
       /\ sst_files' = [p \in (DOMAIN sst_files) \cup {sstable_path} |->
                           IF p = sstable_path THEN <<>> ELSE sst_files[p]]
       /\ op' = [op EXCEPT !.path = sstable_path]
       /\ pc' = "flush_write"
       /\ UNCHANGED <<result, fail_site, acked>>
    /\ UNCHANGED <<wal_file, wal_synced, given, db, status, open_err, session, precrash,
                   before, counters>>

\* the path is chosen from the clock; OpenOptions::create_new
FlushCreate(dt) ==
    /\ status = "open" /\ pc = "flush_create"
    /\ now + dt >= 0
    /\ now' = now + dt
    /\ LET sstable_path == SSTablePath(0, now') IN
       IF sstable_path \in DOMAIN sst_files
       THEN /\ Return("AlreadyExists", "sstable")
            /\ UNCHANGED sst_files
       ELSE /\ sst_files' = [p \in (DOMAIN sst_files) \cup {sstable_path} |->
                                IF p = sstable_path THEN <<>> ELSE sst_files[p]]
            /\ op' = [op EXCEPT !.path = sstable_path]
            /\ pc' = "flush_write"
            /\ UNCHANGED <<result, fail_site, acked>>
    /\ UNCHANGED <<wal_file, wal_synced, given, db, status, open_err, session, precrash,
                   before, counters>>

\* a flush that truncates the WAL while it writes the SSTable
FlushWrite_TruncatesWal ==
    /\ status = "open" /\ pc = "flush_write"
    /\ sst_files' = [sst_files EXCEPT ![op.path] = SSTableFileBytes(memtable)]
    /\ wal_file' = <<>>
    /\ pc' = "flush_install"
    /\ UNCHANGED <<wal_synced, now, given, db, status, op, result, open_err,
                   session, hist, counters>>

\* the writes of write_from_memtable reach the file at writer.flush()
FlushWrite ==
    /\ status = "open" /\ pc = "flush_write"
    /\ sst_files' = [sst_files EXCEPT ![op.path] = SSTableFileBytes(memtable)]
    /\ pc' = "flush_install"
    /\ UNCHANGED <<wal_file, wal_synced, now, given, db, status, op, result, open_err,
                   session, hist, counters>>

\* Self::open(path), then push, sort, memtable.clear(), memtable_size = 0
FlushInstall ==
    /\ status = "open" /\ pc = "flush_install"
    /\ LET o == SSTableOpen(op.path, sst_files[op.path]) IN
       IF ~o.ok
       THEN /\ Return(o.err, "sstable")
            /\ UNCHANGED <<levels, memtable, memtable_size>>
       ELSE /\ levels' = [levels EXCEPT ![1] = SortTables(Append(@, o.sstable))]
            /\ memtable' = MemTableClear(memtable)
            /\ memtable_size' = 0
            /\ pc' = "wal_clear"
            /\ UNCHANGED <<op, result, fail_site, acked>>
    /\ UNCHANGED <<disk, writer, max_memtable_size, status, open_err, session, precrash,
                   before, counters>>

\* Wal::clear, and the return of put
WalClear ==
    /\ status = "open" /\ pc = "wal_clear"
    /\ wal_file' = <<>>
    /\ wal_synced' = 0
    /\ wal_log' = <<>>
    /\ writer' = <<>>
    /\ Return("Ok", "none")
    /\ UNCHANGED <<sst_files, now, outside, memtable, levels, max_memtable_size,
                   memtable_size, status, open_err, session, precrash, before, counters>>

\* ------------------------------------------------------------------------
\* The process terminates abruptly
\* ------------------------------------------------------------------------
\* lengths of the new SSTable file that a crash during its write can leave behind
SstCuts(bytes) == {0, FOOTER_SIZE - 1, FOOTER_SIZE, Len(bytes) - 1, Len(bytes)}

\* what a crash at position pc can leave of the step in progress:
\* the number of bytes of that step's write that reached the file
CrashCuts ==
    IF pc = "wal_flush" THEN 0..Len(writer)
    ELSE IF pc = "flush_write" THEN SstCuts(SSTableFileBytes(memtable))
    ELSE {0}

\* the process dies; n bytes of the write in progress have reached its file
CrashWith(n) ==
    /\ status = "open" /\ ncrashes < MaxCrashes
    /\ ncrashes' = ncrashes + 1
    /\ wal_file' = IF pc = "wal_flush" THEN wal_file \o Take(writer, n) ELSE wal_file
    /\ wal_log' = IF pc = "wal_flush" /\ n = Len(writer)
                  THEN Append(wal_log, OpLogEntry(op)) ELSE wal_log
    /\ sst_files' = IF pc = "flush_write"
                    THEN [sst_files EXCEPT ![op.path] = Take(SSTableFileBytes(memtable), n)]
                    ELSE sst_files
    /\ wal_synced' = Len(wal_file')
    /\ status' = "closed"
    /\ writer' = <<>>
    /\ memtable' = MemTableNew
    /\ levels' = << <<>> >>
    /\ max_memtable_size' = 0
    /\ memtable_size' = 0
    /\ pc' = "idle"
    /\ op' = NoOp
    /\ result' = "none"
    /\ acked' = IF pc # "idle" THEN [acked EXCEPT ![op.key] = Unknown] ELSE acked
    /\ precrash' = IF pc \in {"flush_install", "wal_clear"}
                   THEN [k \in Keys |-> IF DBGet(k).ok THEN DBGet(k).value ELSE -1]
                   ELSE NoSnapshot
    /\ mem_before' = MemTableNew
    /\ size_before' = 0
    /\ fail_site' = "none"
    /\ UNCHANGED <<now, outside, open_err, session, nops, nfaults, ncorrupt>>

\* a crash at any point of a call, or between calls
Crash == \E n \in CrashCuts : CrashWith(n)

\* a crash between two calls
CrashIdle == pc = "idle" /\ CrashWith(0)

\* the process dies right after DB::open returned, before any call (once in a
\* behaviour, in addition to the crashes counted by ncrashes)
CrashAgain ==
    /\ status = "open" /\ pc = "idle" /\ result = "none"
    /\ ~reopened.armed
    /\ reopened' = [armed |-> TRUE, session |-> session, memtable |-> memtable]
    /\ wal_synced' = Len(wal_file)
    /\ status' = "closed"
    /\ writer' = <<>>
    /\ memtable' = MemTableNew
    /\ levels' = << <<>> >>
    /\ max_memtable_size' = 0
    /\ memtable_size' = 0
    /\ UNCHANGED <<wal_file, sst_files, now, config, dir, standalone, wal_log, pc, op,
                   result, open_err, session, hist, counters>>

\* ------------------------------------------------------------------------
\* Write-path I/O failures
\* ------------------------------------------------------------------------
\* bytes of the frame accepted by the BufWriter before a write_all of append failed:
\* none, the checksum, or the checksum and the length
AppendCuts(frame) == {0, CRC_LEN, CRC_LEN + LEN_LEN}

\* bytes of the buffer that reached the file before writer.flush() failed
\* (crashes cover every length; here: nothing, a checksum, all but one byte)
FlushCuts(buf) == {n \in {0, CRC_LEN, Len(buf) - 1} : n < Len(buf)}

\* one of the write_all calls of Wal::append fails
WalAppendFail ==
    /\ status = "open" /\ pc = "wal_append" /\ nfaults < MaxFaults
    /\ nfaults' = nfaults + 1
    /\ \E n \in AppendCuts(Frame(SerializeLogEntry(OpLogEntry(op)))) :
          writer' = writer \o Take(Frame(SerializeLogEntry(OpLogEntry(op))), n)
    /\ Return("Err", "append")
    /\ UNCHANGED <<disk, memtable, levels, max_memtable_size, memtable_size, status,
                   open_err, session, precrash, before, nops, ncrashes, ncorrupt>>

\* self.writer.flush() fails after writing part of the buffer; the rest stays buffered
WalFlushFail ==
    /\ status = "open" /\ pc = "wal_flush" /\ nfaults < MaxFaults
    /\ nfaults' = nfaults + 1
    /\ \E n \in FlushCuts(writer) :
          /\ wal_file' = wal_file \o Take(writer, n)
          /\ writer' = Drop(writer, n)
    /\ Return("Err", "flush")
    /\ UNCHANGED <<wal_synced, sst_files, now, given, memtable, levels,
                   max_memtable_size, memtable_size, status, open_err, session, precrash,
                   before, nops, ncrashes, ncorrupt>>

\* sync_all() fails
WalSyncFail ==
    /\ status = "open" /\ pc = "wal_sync" /\ nfaults < MaxFaults
    /\ nfaults' = nfaults + 1
    /\ Return("Err", "sync")
    /\ UNCHANGED <<disk, db, status, open_err, session, precrash, before,
                   nops, ncrashes, ncorrupt>>

\* ------------------------------------------------------------------------
\* A file is damaged from outside (as tests::corrupt_entry does to wal.log)
\* ------------------------------------------------------------------------
FlipByte(bytes, i) == [bytes EXCEPT ![i] = 255 - @]

\* the bytes that get damaged, of n: the first frame's checksum, length and payload,
\* and the last byte
CorruptPositions(n) == {i \in {1, CRC_LEN + 1, CRC_LEN + LEN_LEN + 1, n} : i <= n}

\* while the DB is closed, one byte of wal.log changes
CorruptWal ==
    /\ status = "closed" /\ wal_file # NoFile /\ ncorrupt < MaxCorrupt
    /\ ncorrupt' = ncorrupt + 1
    /\ \E i \in CorruptPositions(Len(wal_file)) : wal_file' = FlipByte(wal_file, i)
    /\ UNCHANGED <<wal_synced, sst_files, now, given, db, ctl, hist, nops, ncrashes, nfaults>>

\* between two calls, one byte of the data section of an open SSTable changes
CorruptSst ==
    /\ status = "open" /\ pc = "idle" /\ ncorrupt < MaxCorrupt
    /\ ncorrupt' = ncorrupt + 1
    /\ \E l \in 1..Len(levels) : \E t \in 1..Len(levels[l]) :
          LET path == levels[l][t].path
              data_len == U64FromLe(Slice(sst_files[path], Len(sst_files[path]) - FOOTER_SIZE, 8))
          IN \E i \in CorruptPositions(data_len) :
                sst_files' = [sst_files EXCEPT ![path] = FlipByte(@, i)]
    /\ UNCHANGED <<wal_file, wal_synced, now, given, db, ctl, hist, nops, ncrashes, nfaults>>

\* what damage leaves of an SSTable file: the file cut below the size of a footer,
\* or the file with the first or the last byte of its magic number changed
FooterDamage(bytes) ==
    {Take(bytes, FOOTER_SIZE - 1)} \cup {FlipByte(bytes, i) : i \in {Len(bytes) - 7, Len(bytes)}}

\* while the DB is closed, the footer of an SSTable file is damaged
CorruptFooter ==
    /\ status = "closed" /\ ncorrupt < MaxCorrupt
    /\ ncorrupt' = ncorrupt + 1
    /\ \E p \in DOMAIN sst_files :
          /\ Len(sst_files[p]) >= FOOTER_SIZE
          /\ \E b \in FooterDamage(sst_files[p]) : sst_files' = [sst_files EXCEPT ![p] = b]
    /\ UNCHANGED <<wal_file, wal_synced, now, given, db, ctl, hist, nops, ncrashes, nfaults>>

\* ------------------------------------------------------------------------
\* A MemTable and an SSTable used on their own (as the unit tests use them)
\* ------------------------------------------------------------------------
TablePath == SSTablePath(0, 0)

MemPut(k, v) ==
    /\ t_mem' = MemTablePut(t_mem, k, v)
    /\ t_last' = [t_last EXCEPT ![k] = [op |-> "put", value |-> v, was_put |-> TRUE]]
    /\ UNCHANGED <<t_file, t_src, t_sst, config, dir, reopened, wal_log, wal_file, wal_synced, sst_files, now,
                   db, ctl, hist, counters>>

MemDelete(k) ==
    /\ t_mem' = MemTableDelete(t_mem, k)
    /\ t_last' = [t_last EXCEPT ![k] = [op |-> "delete", value |-> 0, was_put |-> @.was_put]]
    /\ UNCHANGED <<t_file, t_src, t_sst, config, dir, reopened, wal_log, wal_file, wal_synced, sst_files, now,
                   db, ctl, hist, counters>>

MemClear ==
    /\ t_mem' = MemTableClear(t_mem)
    /\ t_last' = [k \in TableKeys |-> NeverUsed]
    /\ UNCHANGED <<t_file, t_src, t_sst, config, dir, reopened, wal_log, wal_file, wal_synced, sst_files, now,
                   db, ctl, hist, counters>>

\* SSTable::write_from_memtable(path, &t_mem) on a path that does not exist yet
TableWrite ==
    /\ t_file' = SSTableFileBytes(t_mem)
    /\ t_src' = t_mem
    /\ t_sst' = [via |-> "write", res |-> SSTableOpen(TablePath, t_file')]
    /\ UNCHANGED <<t_mem, t_last, config, dir, reopened, wal_log, wal_file, wal_synced, sst_files, now,
                   db, ctl, hist, counters>>

\* a later SSTable::open(path)
TableOpen ==
    /\ t_file # NoFile
    /\ t_sst' = [via |-> "open", res |-> SSTableOpen(TablePath, t_file)]
    /\ UNCHANGED <<t_mem, t_last, t_file, t_src, config, dir, reopened, wal_log, wal_file, wal_synced,
                   sst_files, now, db, ctl, hist, counters>>

\* ------------------------------------------------------------------------
\* Specifications
\* ------------------------------------------------------------------------
\* the entries found in the directory besides wal.log and the SSTables of flushes:
\* another extension, no extension with and without a level prefix, a .sst name
\* without a level, a name that begins with '-'
OtherNames ==
    { <<"n", ".", "t", "x", "t">>, <<"L", "0", "-", "b">>, <<"R", "M">>,
      <<"x", ".", "s", "s", "t">>, <<"-", "a">> }
OtherContents == {<<>>, SSTableFileBytes(MemTableNew)}
Directories ==
    {NoEntries} \cup {[n \in {name} |-> c] : name \in OtherNames, c \in OtherContents}

\* an empty directory apart from the entries in dir; nothing opened yet
InitEngine ==
    /\ wal_file = NoFile
    /\ wal_synced = 0
    /\ sst_files = [p \in {} |-> <<>>]
    /\ now = 0
    /\ config \in MemLimits
    /\ t_mem = MemTableNew
    /\ t_last = [k \in TableKeys |-> NeverUsed]
    /\ t_file = NoFile
    /\ t_src = MemTableNew
    /\ t_sst = Unopened
    /\ reopened = NotReopened
    /\ wal_log = <<>>
    /\ status = "closed"
    /\ writer = <<>>
    /\ memtable = MemTableNew
    /\ levels = << <<>> >>
    /\ max_memtable_size = 0
    /\ memtable_size = 0
    /\ pc = "idle"
    /\ op = NoOp
    /\ result = "none"
    /\ open_err = "none"
    /\ session = 0
    /\ acked = [k \in Keys |-> Unknown]
    /\ precrash = NoSnapshot
    /\ mem_before = MemTableNew
    /\ size_before = 0
    /\ fail_site = "none"
    /\ nops = 0 /\ ncrashes = 0 /\ nfaults = 0 /\ ncorrupt = 0

Init == InitEngine /\ dir = NoEntries

InitDir == InitEngine /\ dir \in Directories

Next ==
    \/ DBOpen(config)
    \/ \E k \in Keys, v \in Vals : PutCall(k, v)
    \/ \E k \in Keys : DeleteCall(k)
    \/ WalAppend
    \/ WalFlush
    \/ WalSync
    \/ MemApply
    \/ \E dt \in Ticks : FlushCreate(dt)
    \/ FlushWrite
    \/ FlushInstall
    \/ WalClear
    \/ Crash

\* normal operation, crashes at any step, reopens, flushes at equal timestamps
Spec == Init /\ [][Next]_vars

NextFault ==
    \/ DBOpen(config)
    \/ \E k \in Keys, v \in Vals : PutCall(k, v)
    \/ \E k \in Keys : DeleteCall(k)
    \/ WalAppend
    \/ WalFlush
    \/ WalSync
    \/ MemApply
    \/ FlushCreate(1)
    \/ FlushWrite
    \/ FlushInstall
    \/ WalClear
    \/ CrashIdle
    \/ WalAppendFail
    \/ WalFlushFail
    \/ WalSyncFail

NextCorrupt ==
    \/ DBOpen(config)
    \/ \E k \in Keys, v \in Vals : PutCall(k, v)
    \/ \E k \in Keys : DeleteCall(k)
    \/ WalAppend
    \/ WalFlush
    \/ WalSync
    \/ MemApply
    \/ FlushCreate(1)
    \/ FlushWrite
    \/ FlushInstall
    \/ WalClear
    \/ CrashIdle
    \/ CorruptWal
    \/ CorruptSst
    \/ CorruptFooter

NextDir ==
    \/ DBOpen(config)
    \/ \E k \in Keys, v \in Vals : PutCall(k, v)
    \/ \E k \in Keys : DeleteCall(k)
    \/ WalAppend
    \/ WalFlush
    \/ WalSync
    \/ MemApply
    \/ FlushCreate(1)
    \/ FlushWrite
    \/ FlushInstall
    \/ WalClear
    \/ CrashIdle

\* a directory that holds one entry the engine did not create; crashes happen between
\* calls, the clock advances between flushes
SpecDir == InitDir /\ [][NextDir]_vars

NextTables ==
    \/ \E k \in TableKeys, v \in Vals : MemPut(k, v)
    \/ \E k \in TableKeys : MemDelete(k)
    \/ MemClear
    \/ TableWrite
    \/ TableOpen

\* a MemTable and an SSTable used on their own
SpecTables == Init /\ [][NextTables]_vars

NextReopen ==
    \/ DBOpen(config)
    \/ \E k \in Keys, v \in Vals : PutCall(k, v)
    \/ \E k \in Keys : DeleteCall(k)
    \/ WalAppend
    \/ WalFlush
    \/ WalSync
    \/ MemApply
    \/ FlushCreate(1)
    \/ FlushWrite
    \/ FlushInstall
    \/ WalClear
    \/ Crash
    \/ CrashAgain

\* crashes at any step, and one more crash right after an open; the clock advances
\* between flushes
SpecReopen == Init /\ [][NextReopen]_vars

\* files damaged from outside; crashes happen between calls, the clock advances
\* between flushes
SpecCorrupt == Init /\ [][NextCorrupt]_vars

\* failing WAL writes; crashes happen between calls, the clock advances between
\* flushes
SpecFault == Init /\ [][NextFault]_vars

\* ------------------------------------------------------------------------
\* Properties
\* ------------------------------------------------------------------------
Idle == status = "open" /\ pc = "idle"
Ok(v) == [ok |-> TRUE, value |-> v]

\* the state right after a DB::open that succeeded
JustOpened == Idle /\ result = "none"

\* every table handle of the DB, as <<level index, position>>
Handles == UNION {{<<l, i>> : i \in 1..Len(levels[l])} : l \in 1..Len(levels)}
HandleAt(h) == levels[h[1]][h[2]]

\* C1: in one session, after put(k, v) returned Ok, get(k) returns v until another
\* put(k, _) or delete(k) returns Ok, also when the put flushed the MemTable
C1_ReadYourWrites ==
    Idle => \A k \in Keys :
               (acked[k].sess = session /\ acked[k].val > 0) => DBGet(k) = Ok(acked[k].val)

\* a value acknowledged in this session is read back from the newest of two SSTables
C1_Witness ==
    /\ Idle
    /\ \E k \in Keys :
          /\ acked[k].sess = session /\ acked[k].val > 0
          /\ k \notin DOMAIN memtable.hash_map
          /\ Len(levels[1]) = 2
          /\ \A i \in 1..2 : k \in DOMAIN levels[1][i].index

\* C2: after delete(k) returned Ok, get(k) returns absent until a later put(k, _)
\* returns Ok, also when an SSTable flushed before the delete holds a live value of k
C2_DeleteShadows ==
    Idle => \A k \in Keys :
               (acked[k].sess = session /\ acked[k].val = 0) => DBGet(k) = Ok(0)

\* C3: a mutation that returned Ok before a crash is observed by get after the next
\* open, whether it was only in the WAL or already flushed to a level-0 SSTable
C3_DurableAcrossCrash ==
    Idle => \A k \in Keys :
               (acked[k].val >= 0 /\ acked[k].sess < session) => DBGet(k) = Ok(acked[k].val)

\* the frame that Wal::append writes for the MemTable's entry of k
FrameOfEntry(k, e) ==
    Frame(SerializeLogEntry(IF e.is_tombstone THEN LogDelete(k) ELSE LogPut(k, e.value)))

\* C4: in every state, each mutation the MemTable holds has its WAL frame inside the
\* part of wal.log that has been flushed to stable storage
C4_WalBeforeMemTable ==
    status = "open" =>
        \A k \in DOMAIN memtable.hash_map :
            LET f == FrameOfEntry(k, memtable.hash_map[k]) IN
            \E pos \in 0..(wal_synced - Len(f)) : Slice(wal_file, pos, Len(f)) = f

\* a put has reached the MemTable (its call has not yet returned)
C4_Witness ==
    /\ status = "open" /\ pc = "flush_create"
    /\ op.key \in DOMAIN memtable.hash_map
    /\ wal_synced = Len(wal_file) /\ wal_synced > 0

\* C5: when Wal::append or Wal::flush fails inside put or delete, the call returns
\* the error and both indexes of the MemTable are as they were before the call
C5_FailedWalLeavesMemTable ==
    (Idle /\ fail_site \in {"append", "flush", "sync"}) =>
        /\ result = "Err"
        /\ memtable = mem_before

\* a call failed in the WAL while the MemTable held an earlier mutation
C5_Witness ==
    /\ Idle /\ fail_site \in {"append", "flush", "sync"}
    /\ DOMAIN memtable.hash_map # {}
    /\ DOMAIN memtable.b_tree_map # {}

\* C6: after a put or delete failed in Wal::append or Wal::flush, the engine stays
\* usable: later mutations that return Ok are read back by get, and a later crash
\* followed by open succeeds and recovers them
C6_UsableAfterWalFailure ==
    nfaults > 0 =>
        /\ status # "open_failed"
        /\ Idle => \A k \in Keys :
                      (acked[k].val >= 0 /\ acked[k].faults > 0) => DBGet(k) = Ok(acked[k].val)

\* C7: after a crash inside a flush, between the write of the new SSTable and the
\* truncation of the WAL, the next open succeeds and get returns for every key what
\* it returned before the crash
C7_FlushCrashRecovered ==
    (precrash # NoSnapshot /\ status # "closed") =>
        /\ status = "open"
        /\ JustOpened => \A k \in Keys : DBGet(k) = Ok(precrash[k])

\* the handles that hold key, and the one get must answer from: lowest level first,
\* and within a level the table with the greatest path (the newest timestamp)
Holders(key) == {h \in Handles : key \in DOMAIN HandleAt(h).index}
FirstHolder(key) ==
    CHOOSE h \in Holders(key) :
        \A g \in Holders(key) :
            \/ h[1] < g[1]
            \/ h[1] = g[1] /\ ~PathLess(HandleAt(h).path, HandleAt(g).path)

RECURSIVE WholeFrames(_, _, _)
WholeFrames(bytes, pos, mt) ==
    LET rem == Len(bytes) - pos
        hdr == CRC_LEN + LEN_LEN
    IN IF rem = 0 THEN [tail |-> "none", pos |-> pos, memtable |-> mt]
       ELSE IF rem < hdr \/ rem - hdr < U64FromLe(Slice(bytes, pos + CRC_LEN, LEN_LEN))
       THEN [tail |-> "torn", pos |-> pos, memtable |-> mt]
       ELSE LET len == U64FromLe(Slice(bytes, pos + CRC_LEN, LEN_LEN))
                payload == Slice(bytes, pos + hdr, len)
            IN IF Slice(bytes, pos, CRC_LEN) # U32ToLe(Crc(payload))
               THEN [tail |-> "badcrc", pos |-> pos, memtable |-> mt]
               ELSE IF ~DeserializeLogEntry(payload).ok
               THEN [tail |-> "baddata", pos |-> pos, memtable |-> mt]
               ELSE WholeFrames(bytes, pos + hdr + len,
                                ApplyLogEntry(mt, DeserializeLogEntry(payload).entry))

\* DB::open has just run (wal.log is as open found it)
AfterOpen == status # "closed" /\ pc = "idle" /\ result = "none"

\* C9: DB::open on a wal.log that ends in a torn record of any length succeeds, and
\* the MemTable holds the replay of every whole record before the torn tail
C9_TornTailTolerated ==
    LET w == WholeFrames(wal_file, 0, MemTableNew) IN
    (AfterOpen /\ wal_file # NoFile /\ w.tail = "torn") =>
        /\ status = "open"
        /\ memtable = w.memtable

\* the frame of key in table t is whole and its checksum does not match its payload
SstFrameBadCrc(t, key) ==
    LET bytes == sst_files[t.path]
        offset == t.index[key]
        rem == Len(bytes) - offset
        hdr == CRC_LEN + LEN_LEN
    IN /\ rem >= hdr
       /\ rem - hdr >= U64FromLe(Slice(bytes, offset + CRC_LEN, LEN_LEN))
       /\ Slice(bytes, offset, CRC_LEN) #
              U32ToLe(Crc(Slice(bytes, offset + hdr,
                                U64FromLe(Slice(bytes, offset + CRC_LEN, LEN_LEN)))))

\* C10: no record that fails its checksum becomes visible: on a WAL frame whose
\* checksum does not match, the iterator yields InvalidData, DB::open returns that
\* error and no DB (no MemTable) comes to exist; on an SSTable frame whose checksum
\* does not match, SSTable::get returns an error instead of an Entry
C10_NoCorruptRecordVisible ==
    /\ wal_file # NoFile =>
          LET w == WholeFrames(wal_file, 0, MemTableNew) IN
          w.tail = "badcrc" =>
              /\ WalIteratorNext(wal_file, w.pos) = [kind |-> "err", err |-> "InvalidData"]
              /\ status # "open"
              /\ status = "open_failed" => open_err = "InvalidData"
    /\ status = "open" =>
          \A h \in Handles : \A k \in DOMAIN HandleAt(h).index :
              SstFrameBadCrc(HandleAt(h), k) =>
                  SSTableGet(sst_files, HandleAt(h), k) = [ok |-> FALSE, err |-> "InvalidData"]

\* DB::open has refused a wal.log whose second frame fails its checksum
C10_Witness ==
    /\ status = "open_failed" /\ open_err = "InvalidData"
    /\ WholeFrames(wal_file, 0, MemTableNew).tail = "badcrc"
    /\ WholeFrames(wal_file, 0, MemTableNew).pos > 0

\* the file ends in a footer: at least FOOTER_SIZE bytes, the last 8 the magic number
ValidFooter(bytes) ==
    /\ Len(bytes) >= FOOTER_SIZE
    /\ Drop(bytes, Len(bytes) - 8) = MAGIC_BYTES

\* C11: SSTable::open returns an error for a file shorter than 24 bytes or with a
\* wrong magic number; DB::open fails on such a file, and no table of the DB's levels
\* (the tables get consults) is a handle for a file without a valid footer
C11_NoFooterNoHandle ==
    /\ \A p \in DOMAIN sst_files :
          SSTableOpen(p, sst_files[p]).ok => ValidFooter(sst_files[p])
    /\ (AfterOpen /\ \E p \in DOMAIN sst_files : ~ValidFooter(sst_files[p]))
          => status = "open_failed"
    /\ status = "open" =>
          \A h \in Handles : ValidFooter(sst_files[HandleAt(h).path])

\* DB::open has refused a directory with a file of footer size or more whose magic
\* number is wrong
C11_Witness ==
    /\ status = "open_failed"
    /\ \E p \in DOMAIN sst_files :
          Len(sst_files[p]) >= FOOTER_SIZE /\ ~ValidFooter(sst_files[p])

\* C12: when a flush picks a path that already exists (the clock has not advanced
\* since the previous flush), the existing file is left as it is, the DB retries with
\* a fresh timestamp, and the put that triggered the flush does not fail
C12_SameTimestampRetried ==
    ~(status = "open" /\ pc = "idle" /\ result = "AlreadyExists")

\* C13: DB::open never fails because of a directory entry that is not a .sst file
\* (a file without extension included) or a .sst file without a parseable level
\* prefix, and never loads a table from one: every such entry is skipped
C13_OtherEntriesSkipped ==
    AfterOpen =>
        /\ status = "open_failed" =>
               \/ ~LoadLevels(sst_files, NoEntries).ok
               \/ wal_file # NoFile /\ ~Replay(wal_file).ok
        /\ status = "open" => LoadLevels(sst_files, dir).others = {}

\* C14: after any sequence of MemTable put, delete and clear, the sorted index and
\* the hashed index hold the same keys and, for each key, the same Entry
C14_IndexesAgree ==
    /\ DOMAIN t_mem.b_tree_map = DOMAIN t_mem.hash_map
    /\ \A k \in DOMAIN t_mem.hash_map : t_mem.b_tree_map[k] = t_mem.hash_map[k]

\* the MemTable holds a live Entry and a tombstone
C14_Witness ==
    /\ \E k \in TableKeys : t_last[k].op = "put" /\ k \in DOMAIN t_mem.b_tree_map
    /\ \E k \in TableKeys : t_last[k].op = "delete" /\ k \in DOMAIN t_mem.b_tree_map

\* C15: after any sequence of put/delete since the last clear, get(k) is the value of
\* the last put(k, _) when no delete(k) followed it and absent otherwise, len() is the
\* number of keys whose last operation is a put, and a delete of a key that was never
\* put leaves a tombstone Entry for the key
C15_GetAndLen ==
    /\ \A k \in TableKeys :
          MemTableGet(t_mem, k) = IF t_last[k].op = "put" THEN t_last[k].value ELSE 0
    /\ MemTableLen(t_mem) = Cardinality({k \in TableKeys : t_last[k].op = "put"})
    /\ \A k \in TableKeys :
          t_last[k].op = "delete" =>
              k \in DOMAIN t_mem.hash_map /\ t_mem.hash_map[k] = Tombstone

\* one key deleted without ever being put, one deleted after a put, one put
C15_Witness ==
    /\ \E k \in TableKeys : t_last[k].op = "delete" /\ ~t_last[k].was_put
    /\ \E k \in TableKeys : t_last[k].op = "delete" /\ t_last[k].was_put
    /\ \E k \in TableKeys : t_last[k].op = "put"

\* C16: iter() yields every key put or deleted since the last clear exactly once, in
\* strictly ascending key order, each with its current Entry, tombstones included
C16_IterSortedWithTombstones ==
    LET it == MemTableIter(t_mem) IN
    /\ {it[i].key : i \in 1..Len(it)} = {k \in TableKeys : t_last[k].op # "none"}
    /\ \A i, j \in 1..Len(it) : i < j => it[i].key < it[j].key
    /\ \A i \in 1..Len(it) :
          it[i].entry = IF t_last[it[i].key].op = "put"
                        THEN LiveEntry(t_last[it[i].key].value) ELSE Tombstone

\* the iteration has three items, a tombstone among them
C16_Witness ==
    /\ Len(MemTableIter(t_mem)) = 3
    /\ t_last[2].op = "delete"
    /\ t_last[1].op = "put" /\ t_last[3].op = "put"

\* what get(k) of a table written from MemTable m has to return
ExpectedGet(m, k) ==
    IF k \in DOMAIN m.b_tree_map
    THEN [ok |-> TRUE, found |-> TRUE, entry |-> m.b_tree_map[k]]
    ELSE [ok |-> TRUE, found |-> FALSE]

\* table o.sstable over the file t_file has the content of MemTable m
SameContent(o, m) ==
    /\ o.ok
    /\ SSTableLen(o.sstable) = Cardinality(DOMAIN m.b_tree_map)
    /\ \A k \in TableKeys :
          SSTableGet([p \in {TablePath} |-> t_file], o.sstable, k) = ExpectedGet(m, k)

\* C17: the SSTable returned by write_from_memtable(path, m), and the one returned by
\* a later SSTable::open(path), has len() equal to the number of keys of m (tombstones
\* included), returns for every key of m the Entry m holds (a tombstone as a
\* tombstone Entry), and absent for every other key
C17_SSTableRoundTrip ==
    t_file # NoFile =>
        /\ SameContent(t_sst.res, t_src)
        /\ SameContent(SSTableOpen(TablePath, t_file), t_src)

\* a table opened again from a file that holds a live Entry and a tombstone
C17_Witness ==
    /\ t_sst.via = "open" /\ t_sst.res.ok
    /\ \E k \in DOMAIN t_src.b_tree_map : t_src.b_tree_map[k].is_tombstone
    /\ \E k \in DOMAIN t_src.b_tree_map : ~t_src.b_tree_map[k].is_tombstone
    /\ DOMAIN t_src.b_tree_map # TableKeys

\* C18: replaying the WAL twice into an empty MemTable gives the same MemTable as
\* replaying it once (the MemTable of a DB just opened, replayed over once more, does
\* not change); so a crash-and-open cycle that follows another one with no write
\* in between succeeds and gives the same MemTable
C18_ReplayIdempotent ==
    /\ JustOpened =>
          /\ memtable = Replay(wal_file).memtable
          /\ ReplayFrom(wal_file, 0, memtable).memtable = memtable
    /\ (AfterOpen /\ reopened.armed /\ session = reopened.session + 1) =>
          /\ status = "open"
          /\ memtable = reopened.memtable

\* the second of two opens with no write in between, on a WAL of two records
C18_Witness ==
    /\ JustOpened /\ reopened.armed /\ session = reopened.session + 1
    /\ DOMAIN memtable.hash_map # {}
    /\ Len(wal_file) > Len(Frame(SerializeLogEntry(LogPut(1, 1))))

\* the file at path p is one that write_from_memtable has returned for: it is not the
\* file of a write in progress, nor what a crash left of one
Written(p) ==
    /\ ~(pc = "flush_write" /\ op.path = p)
    /\ SSTableOpen(p, sst_files[p]).ok

\* C19: once write_from_memtable has returned for an SSTable file, no open, put,
\* delete, get or flush changes the content of the file or removes it
C19_SSTableFrozen ==
    [][\A p \in DOMAIN sst_files :
          Written(p) => p \in DOMAIN sst_files' /\ sst_files'[p] = sst_files[p]]_vars

\* a flush that picked the path of a file written earlier has returned
C19_Witness ==
    /\ Idle /\ result = "AlreadyExists"
    /\ \E p \in DOMAIN sst_files : Written(p) /\ p = SSTablePath(0, now)

\* C20: in a flush the WAL is truncated only after write_from_memtable has returned
\* successfully (the complete file of the flushed MemTable is on disk and its table is
\* in level 0); a flush whose write_from_memtable fails ends with the WAL, the
\* MemTable and level 0 unchanged
C20_TruncateAfterWrite ==
    [][/\ (status = "open" /\ status' = "open" /\ Len(wal_file') < Len(wal_file)) =>
            /\ pc = "wal_clear"
            /\ \E i \in 1..Len(levels[1]) : levels[1][i].path = op.path
            /\ sst_files[op.path] =
                  SSTableFileBytes(MemTablePut(mem_before, op.key, op.value))
       /\ (pc \in {"flush_create", "flush_write", "flush_install"}
              /\ pc' = "idle" /\ status' = "open") =>
            /\ result' # "Ok"
            /\ wal_file' = wal_file /\ memtable' = memtable /\ levels' = levels
      ]_vars

\* after a flush that truncated the WAL, a flush has failed in write_from_memtable
C20_Witness ==
    /\ Idle /\ result = "AlreadyExists"
    /\ Len(levels[1]) > 0
    /\ wal_file # <<>> /\ DOMAIN memtable.hash_map # {}

\* C21: after DB::open returned successfully, levels holds a handle for every valid
\* .sst file of the directory at the level parsed from its name, every level sorted
\* by file name, and levels has length max_level + 1
C21_LevelsLoaded ==
    JustOpened => levels = LoadedLevels(LoadLevels(sst_files, dir).map)

\* C22: DB::open on a directory with a wal.log leaves the content of wal.log as it
\* is, and every record appended after the open (until a flush clears the WAL) is
\* placed after what was already there
C22_WalReopenedForAppend ==
    [][/\ (status = "closed" /\ wal_file # NoFile) => wal_file' = wal_file
       /\ (status = "open" /\ status' = "open" /\ pc # "wal_clear" /\ wal_file' # wal_file) =>
            /\ Len(wal_file') > Len(wal_file)
            /\ Take(wal_file', Len(wal_file)) = wal_file
      ]_vars

\* a put of the second session has returned with its record behind the record that
\* the first session left in wal.log
C22_Witness ==
    /\ Idle /\ session = 2 /\ result = "Ok"
    /\ \E k1, k2 \in Keys : acked[k1].sess = 1 /\ acked[k2].sess = 2
    /\ WholeFrames(wal_file, 0, MemTableNew).tail = "none"
    /\ Len(wal_file) > Len(Frame(SerializeLogEntry(LogPut(1, 1))))

\* the items that WalIterator yields over a WAL image: the entries, and how it ends
RECURSIVE WalItemsFrom(_, _, _)
WalItemsFrom(bytes, pos, entries) ==
    LET r == WalIteratorNext(bytes, pos) IN
    IF r.kind = "eof" THEN [entries |-> entries, end |-> "eof"]
    ELSE IF r.kind = "err" THEN [entries |-> entries, end |-> r.err]
    ELSE WalItemsFrom(bytes, r.pos, Append(entries, r.entry))

\* the Entry that the last record of key k in log leaves, NoEntry without a record
NoEntry == [value |-> 0, is_tombstone |-> FALSE]
LastEffect(log, k) ==
    LET at == {i \in 1..Len(log) : log[i].key = k} IN
    IF at = {} THEN NoEntry
    ELSE LET e == log[LastOf(at)] IN
         IF e.kind = "Put" THEN LiveEntry(e.value) ELSE Tombstone

\* C23: iterating the WAL yields the records appended and flushed since the last
\* create/clear, each equal to the appended LogEntry, in append order, then end of
\* stream; DB::open applies them in that order to a fresh MemTable, so that for every
\* key the MemTable after open holds the effect of the key's last record
C23_WalIterationInOrder ==
    AfterOpen =>
        /\ WalItemsFrom(wal_file, 0, <<>>) = [entries |-> wal_log, end |-> "eof"]
        /\ status = "open" =>
              /\ DOMAIN memtable.hash_map = {k \in Keys : LastEffect(wal_log, k) # NoEntry}
              /\ \A k \in DOMAIN memtable.hash_map :
                    memtable.hash_map[k] = LastEffect(wal_log, k)

\* the same on a wal.log that holds nothing but whole records
C23_CleanWal ==
    (AfterOpen /\ WholeFrames(wal_file, 0, MemTableNew).tail = "none") => C23_WalIterationInOrder

\* the table of level 0 at the path of the running flush
NewTable(lv) == lv[1][CHOOSE i \in 1..Len(lv[1]) : lv[1][i].path = op.path]

\* C24: a put that leaves memtable_size above max_memtable_size runs a flush before
\* it returns; when it returns Ok the MemTable is empty, memtable_size is 0, wal.log
\* has length zero and level 0 holds exactly one more SSTable, with exactly the
\* entries (tombstones included) the MemTable held when the flush began; a put that
\* leaves memtable_size at or below the threshold returns without creating an SSTable
\* or truncating the WAL
C24_FlushOnThreshold ==
    [][/\ (op.kind = "Put" /\ pc = "mem_apply" /\ pc' # "mem_apply" /\ status' = "open") =>
            IF memtable_size > max_memtable_size
            THEN pc' = "flush_create"
            ELSE /\ pc' = "idle" /\ result' = "Ok"
                 /\ sst_files' = sst_files /\ levels' = levels
                 /\ wal_file' = wal_file /\ wal_file' # <<>>
       /\ (pc = "flush_install" /\ pc' = "wal_clear") =>
            /\ Len(levels'[1]) = Len(levels[1]) + 1
            /\ \A i \in 1..Len(levels[1]) : \E j \in 1..Len(levels'[1]) :
                  levels'[1][j] = levels[1][i]
            /\ SSTableLen(NewTable(levels')) = Cardinality(DOMAIN memtable.b_tree_map)
            /\ \A k \in Keys :
                  SSTableGet(sst_files', NewTable(levels'), k) = ExpectedGet(memtable, k)
       /\ (pc = "wal_clear" /\ pc' = "idle" /\ status' = "open") =>
            /\ result' = "Ok"
            /\ memtable' = MemTableNew /\ memtable_size' = 0
            /\ wal_file' = <<>> /\ levels' = levels
      ]_vars

\* a put has returned Ok after flushing a MemTable of a tombstone and a live Entry
C24_Witness ==
    /\ Idle /\ result = "Ok"
    /\ memtable = MemTableNew /\ memtable_size = 0 /\ wal_file = <<>>
    /\ Len(levels[1]) = 1 /\ SSTableLen(levels[1][1]) = 2
    /\ \E k \in Keys :
          SSTableGet(sst_files, levels[1][1], k) =
              [ok |-> TRUE, found |-> TRUE, entry |-> Tombstone]

\* a step of a delete leaves memtable_size and the SSTable files alone and keeps
\* the content of wal.log as a prefix of the new content
DeleteStep ==
    (status' = "open" /\ (op.kind = "Delete" \/ op'.kind = "Delete")) =>
        /\ memtable_size' = memtable_size
        /\ sst_files' = sst_files
        /\ Len(wal_file') >= Len(wal_file)
        /\ Take(wal_file', Len(wal_file)) = wal_file

\* the part of C25 about delete
C25_DeleteKeepsSize == [][DeleteStep]_vars

\* C25: memtable_size grows only by puts that return Ok: a call that returns leaves
\* memtable_size above its value at the call only if it is a put returning Ok, and a
\* put that fails at the WAL append or fsync leaves it as it was at the call; a delete
\* never changes memtable_size, creates no SSTable and never truncates the WAL
C25_SizeCountsSuccessfulPuts ==
    [][/\ (status' = "open" /\ pc # "idle" /\ pc' = "idle") =>
            /\ memtable_size' > size_before => (op.kind = "Put" /\ result' = "Ok")
            /\ (op.kind = "Put" /\ result' = "Err"
                    /\ fail_site' \in {"append", "flush", "sync"}) =>
                  memtable_size' = size_before
       /\ DeleteStep
      ]_vars

\* level 0 is sorted ascending by path
Level0Sorted(lv) ==
    \A i, j \in 1..Len(lv[1]) : i < j => PathLess(lv[1][i].path, lv[1][j].path)

\* C26: after any sequence of flushes level 0 is sorted ascending by path and that
\* order is the order of creation: every flush leaves the tables that were there in
\* their places and its new table behind them, as the last element of level 0, the
\* one that get consults first
C26_Level0InCreationOrder ==
    [][/\ status' = "open" => Level0Sorted(levels')
       /\ (pc = "flush_install" /\ pc' = "wal_clear") =>
            /\ levels'[1][Len(levels'[1])].path = op.path
            /\ SubSeq(levels'[1], 1, Len(levels[1])) = levels[1]
      ]_vars

\* the part of C26 about the sort: level 0 is sorted ascending by path
C26_Level0SortedByPath == status = "open" => Level0Sorted(levels)

\* C27: whenever no operation of the DB is in progress, the MemTable is the result of
\* replaying the current content of wal.log into an empty MemTable, also after an
\* operation that returned an error
C27_MemTableIsWalReplay ==
    (Idle /\ wal_file # NoFile) =>
        /\ Replay(wal_file).ok
        /\ Replay(wal_file).memtable = memtable

\* C28: when a put or delete returns an error its mutation has not taken effect: in
\* the same session get returns for every key what it returned before the call, and
\* after a crash and a reopen get returns the value of the last mutation of the key
\* that returned Ok, not that of a later mutation that returned an error
C28_FailedMutationHasNoEffect ==
    /\ (Idle /\ result \notin {"Ok", "none"}) =>
          \A k \in Keys : DBGet(k) = GetIn(mem_before, levels, sst_files, k)
    /\ (JustOpened /\ nfaults > 0 /\ DOMAIN sst_files = {}) =>
          \A k \in Keys : acked[k].val >= 0 => DBGet(k) = Ok(acked[k].val)

====
